---- MODULE Spec2Model ----
(***************************************************************************)
(* The slot-pool scheduler of gparallel (src/src/scheduler.rs) together    *)
(* with the parts of main (src/src/main.rs) and of the dashboard loop      *)
(* (src/src/ui.rs) that drive it: the submit path, one supervisor task per *)
(* acquired GPU, the child processes, the Ctrl+C handler with              *)
(* kill_all_jobs, the headless wait loop and the dashboard's exit test.    *)
(***************************************************************************)
EXTENDS Integers, Sequences, FiniteSets, TLC

\* Bounds of the model: the number of command lines in the input file and
\* the number of GPUs the detection returns.
MaxJobs == 3
MaxSlots == 2

VARIABLES
    gpus,          \* the GPU ids detect_gpus_with_info returned
    jobs,          \* AppState.jobs: the published JobInfo records
    should_quit,   \* AppState.should_quit
    state_guard,   \* who keeps a write guard on the AppState RwLock across awaits
    queue,         \* Scheduler.queue
    gpu_rx,        \* the ids waiting in the gpu_tx / gpu_rx channel (free GPUs)
    busy,          \* Scheduler.busy
    running_jobs,  \* Scheduler.running_jobs (job id -> PID), as the set of its keys
    running_guard, \* who keeps the guard of the running_jobs Mutex across awaits
    proc,          \* the child process of every job: its status and its CUDA_VISIBLE_DEVICES
    sup,           \* the supervisor task of each spawn_job call (named by its first job):
                   \* position, current job, its GPU, whether it is in the drain loop
    main,          \* the main task: position, the job and the GPU of the submit call in progress
    ctrlc,         \* the Ctrl+C handler task: position
    signalled,     \* the jobs whose process kill_all_jobs sent SIGTERM / SIGKILL
    ui,            \* the dashboard task UI::run: position
    exited,        \* how the program ended, "no" while it runs
    stdio,         \* the stdout / stderr pipes of the observed child: lines written, not yet read
    emitted,       \* history: the lines the observed child has written to each pipe
    reader,        \* the two reader tasks of the observed job: position and the line in hand
    log_lines,     \* JobInfo.log_lines of the observed job
    appended,      \* history: every line pushed to log_lines, in push order
    file_content,  \* main: the text of the command file, a sequence of characters
    lines_read,    \* main: how many lines of file_content the loop has taken
    cmds,          \* the cmd column of AppState.jobs: cmds[i] is jobs[i].cmd
    client,        \* client submit: position, the commands still to send, the gpus
                   \* argument, the commands written as messages
    stream,        \* the UnixStream of the client's connection: the lines under way in
                   \* each direction and which ends are open
    handler,       \* the server's handle_client task of the connection: position, line
                   \* read, acknowledgements written
    rx,            \* the server's mpsc channel of ServerMsg
    sched_jobs     \* the jobs the server's scheduler loop has passed to sched.submit

\* the output of the observed job
logVars == <<stdio, emitted, reader, log_lines, appended>>

\* the command file and the commands submitted from it
bulkVars == <<file_content, lines_read, cmds>>

\* remote submission: the client, its connection and the server
remoteVars == <<client, stream, handler, rx, sched_jobs>>

auxVars == <<logVars, bulkVars, remoteVars>>

vars == <<gpus, jobs, should_quit, state_guard, queue, gpu_rx, busy,
          running_jobs, running_guard, proc, sup, main, ctrlc, signalled, ui, exited,
          auxVars>>

JobIds == 1..MaxJobs

\* JobState of ui.rs
Queued == <<"Queued">>
Running(gpu_id) == <<"Running", gpu_id>>
Completed == <<"Completed">>
Failed == <<"Failed">>

IsRunning(s) == s[1] = "Running"
IsTerminal(s) == s = Completed \/ s = Failed

\* JobInfo as submit publishes it
JobInfo(id) == [id |-> id, state |-> Queued]

\* state.jobs.iter_mut().find(|j| j.id == id) followed by job_info.state = s
SetJobState(id, s) ==
    [i \in DOMAIN jobs |-> IF jobs[i].id = id THEN [jobs[i] EXCEPT !.state = s] ELSE jobs[i]]

NoProc == [status |-> "none", cuda |-> 0]
Alive(p) == p.status \in {"run", "stubborn"}
Exited(p) == p.status \in {"ok", "fail"}

SupOff == [pc |-> "off", job |-> 0, gpu |-> 0, in_loop |-> FALSE]
MainAt(pc) == [pc |-> pc, job |-> 0, gpu |-> 0]

Streams == {"stdout", "stderr"}

\* log_lines: VecDeque::new() in submit, and no child yet: nothing written,
\* no reader task started
NoOutput ==
    /\ stdio = [s \in Streams |-> <<>>]
    /\ emitted = [s \in Streams |-> <<>>]
    /\ reader = [s \in Streams |-> [pc |-> "off", line |-> <<>>]]
    /\ log_lines = <<>>
    /\ appended = <<>>

\* the text of the command file is not followed: main's loop is Submit
NoFile ==
    /\ file_content = <<>>
    /\ lines_read = 0
    /\ cmds = <<>>

\* no client, no connection, nothing received
NoRemote ==
    /\ client = [pc |-> "off", todo |-> <<>>, gpus |-> 0, written |-> <<>>]
    /\ stream = [state |-> "none", c2s |-> <<>>, s2c |-> <<>>,
                 client_closed |-> FALSE, server_closed |-> FALSE]
    /\ handler = [pc |-> "off", line |-> <<>>, acks |-> 0]
    /\ rx = <<>>
    /\ sched_jobs = <<>>

\* Scheduler::new and AppState::new; the input file has not been read yet.
Init ==
    /\ \E S \in 1..MaxSlots : gpus = [i \in 1..S |-> i - 1]
    /\ gpu_rx = gpus
    /\ jobs = <<>>
    /\ should_quit = FALSE
    /\ state_guard = "none"
    /\ queue = <<>>
    /\ busy = 0
    /\ running_jobs = {}
    /\ running_guard = "none"
    /\ proc = [j \in JobIds |-> NoProc]
    /\ sup = [t \in JobIds |-> SupOff]
    /\ main = MainAt("read")
    /\ ctrlc = "off"
    /\ signalled = [term |-> {}, kill |-> {}]
    /\ ui = "off"
    /\ exited = "no"
    /\ NoOutput
    /\ NoFile
    /\ NoRemote

\* is_idle as it would be without the busy counter
is_idle_queue_only == queue = <<>>

\* Scheduler::is_idle
is_idle == queue = <<>> /\ busy = 0

(***************************************************************************)
(* main: the loop over the lines of the file, and Scheduler::submit        *)
(***************************************************************************)

\* main takes the next non-blank line and calls submit, which publishes the
\* job as Queued under the AppState write lock.
Submit ==
    /\ exited = "no"
    /\ main.pc = "read"
    /\ Len(jobs) < MaxJobs
    /\ state_guard = "none"
    /\ jobs' = Append(jobs, JobInfo(Len(jobs) + 1))
    /\ main' = [pc |-> "try_recv", job |-> Len(jobs) + 1, gpu |-> 0]
    /\ UNCHANGED <<auxVars, gpus, should_quit, state_guard, queue, gpu_rx, busy,
                   running_jobs, running_guard, proc, sup, ctrlc, signalled, ui, exited>>

\* SubmitTryRecv waiting for a GPU id (recv().await in place of try_recv())
SubmitTryRecv_recv ==
    /\ exited = "no"
    /\ main.pc = "try_recv"
    /\ gpu_rx # <<>>
    /\ gpu_rx' = Tail(gpu_rx)
    /\ main' = [main EXCEPT !.pc = "fetch_add", !.gpu = Head(gpu_rx)]
    /\ UNCHANGED <<auxVars, gpus, jobs, should_quit, state_guard, queue, busy,
                   running_jobs, running_guard, proc, sup, ctrlc, signalled, ui, exited>>


\* SubmitTryRecv reading the channel without taking the id out of it
SubmitTryRecv_peek ==
    /\ exited = "no"
    /\ main.pc = "try_recv"
    /\ IF gpu_rx # <<>>
       THEN main' = [main EXCEPT !.pc = "fetch_add", !.gpu = Head(gpu_rx)]
       ELSE main' = [main EXCEPT !.pc = "push_back"]
    /\ UNCHANGED <<auxVars, gpus, jobs, should_quit, state_guard, queue, gpu_rx, busy,
                   running_jobs, running_guard, proc, sup, ctrlc, signalled, ui, exited>>

\* submit: self.gpu_rx.lock().await.try_recv().ok()
SubmitTryRecv ==
    /\ exited = "no"
    /\ main.pc = "try_recv"
    /\ IF gpu_rx # <<>>
       THEN /\ gpu_rx' = Tail(gpu_rx)
            /\ main' = [main EXCEPT !.pc = "fetch_add", !.gpu = Head(gpu_rx)]
       ELSE /\ main' = [main EXCEPT !.pc = "push_back"]
            /\ UNCHANGED gpu_rx
    /\ UNCHANGED <<auxVars, gpus, jobs, should_quit, state_guard, queue, busy,
                   running_jobs, running_guard, proc, sup, ctrlc, signalled, ui, exited>>

\* submit: self.queue.lock().await.push_back(job), and submit returns
SubmitPushBack ==
    /\ exited = "no"
    /\ main.pc = "push_back"
    /\ queue' = Append(queue, main.job)
    /\ main' = MainAt("read")
    /\ UNCHANGED <<auxVars, gpus, jobs, should_quit, state_guard, gpu_rx, busy,
                   running_jobs, running_guard, proc, sup, ctrlc, signalled, ui, exited>>

\* spawn_job: self.busy.fetch_add(1)
SpawnJobFetchAdd ==
    /\ exited = "no"
    /\ main.pc = "fetch_add"
    /\ busy' = busy + 1
    /\ main' = [main EXCEPT !.pc = "set_running"]
    /\ UNCHANGED <<auxVars, gpus, jobs, should_quit, state_guard, queue, gpu_rx,
                   running_jobs, running_guard, proc, sup, ctrlc, signalled, ui, exited>>

\* SpawnJobSetRunning starting the supervisor task without publishing Running
SpawnJobSetRunning_unpublished ==
    /\ exited = "no"
    /\ main.pc = "set_running"
    /\ state_guard = "none"
    /\ sup' = [sup EXCEPT ![main.job] = [pc |-> "spawn", job |-> main.job,
                                         gpu |-> main.gpu, in_loop |-> FALSE]]
    /\ main' = MainAt("read")
    /\ UNCHANGED <<auxVars, gpus, jobs, should_quit, state_guard, queue, gpu_rx, busy,
                   running_jobs, running_guard, proc, ctrlc, signalled, exited, ui>>

\* spawn_job: publish Running { gpu_id }, build the command, tokio::spawn the
\* supervisor task, and return to main
SpawnJobSetRunning ==
    /\ exited = "no"
    /\ main.pc = "set_running"
    /\ state_guard = "none"
    /\ jobs' = SetJobState(main.job, Running(main.gpu))
    /\ sup' = [sup EXCEPT ![main.job] = [pc |-> "spawn", job |-> main.job,
                                         gpu |-> main.gpu, in_loop |-> FALSE]]
    /\ main' = MainAt("read")
    /\ UNCHANGED <<auxVars, gpus, should_quit, state_guard, queue, gpu_rx, busy,
                   running_jobs, running_guard, proc, ctrlc, signalled, exited, ui>>

\* main after the last line. use_tui (set from the command line and the
\* terminal before the file is read) stands here for "use_tui and UI::new
\* succeeded": the dashboard and its Ctrl+C handler are spawned and main waits
\* in select!; otherwise the headless handler is spawned and main enters the
\* wait loop.
EndOfFile ==
    /\ exited = "no"
    /\ main.pc = "read"
    /\ \E use_tui \in BOOLEAN :
          IF use_tui
          THEN main' = MainAt("select") /\ ui' = "run"
          ELSE main' = MainAt("wait") /\ ui' = "off"
    /\ ctrlc' = "armed"
    /\ UNCHANGED <<auxVars, gpus, jobs, should_quit, state_guard, queue, gpu_rx, busy,
                   running_jobs, running_guard, proc, sup, signalled, exited>>

\* main, headless: loop { if sched.is_idle().await { break; } sleep }, then Ok(())
MainWaitLoop ==
    /\ exited = "no"
    /\ main.pc = "wait"
    /\ is_idle
    /\ exited' = "idle"
    /\ UNCHANGED <<auxVars, gpus, jobs, should_quit, state_guard, queue, gpu_rx, busy,
                   running_jobs, running_guard, proc, sup, main, ctrlc, signalled, ui>>

(***************************************************************************)
(* The supervisor task t that spawn_job spawns (tokio::spawn)               *)
(***************************************************************************)

\* child.spawn() / next_child.spawn(): the process starts with
\* CUDA_VISIBLE_DEVICES = gpu, or cannot be started
SupSpawn(t) ==
    /\ exited = "no"
    /\ sup[t].pc = "spawn"
    /\ \/ \E kind \in {"run", "stubborn"} :
             /\ proc' = [proc EXCEPT ![sup[t].job] = [status |-> kind, cuda |-> sup[t].gpu]]
             /\ sup' = [sup EXCEPT ![t].pc = "track"]
       \/ /\ sup' = [sup EXCEPT ![t].pc = "spawn_failed"]
          /\ UNCHANGED proc
    /\ UNCHANGED <<auxVars, gpus, jobs, should_quit, state_guard, queue, gpu_rx, busy,
                   running_jobs, running_guard, main, ctrlc, signalled, ui, exited>>

\* SupSpawnFailed putting the job back on the queue as Queued for a retry
SupSpawnFailed_retry(t) ==
    /\ exited = "no"
    /\ sup[t].pc = "spawn_failed"
    /\ state_guard = "none"
    /\ jobs' = SetJobState(sup[t].job, Queued)
    /\ queue' = Append(queue, sup[t].job)
    /\ sup' = [sup EXCEPT ![t].pc = "pop_front"]
    /\ UNCHANGED <<auxVars, gpus, should_quit, state_guard, gpu_rx, busy,
                   running_jobs, running_guard, proc, main, ctrlc, signalled, ui, exited>>

\* Err(e) of spawn: publish Failed; the first job of the task then releases
\* the GPU and returns, a job of the drain loop continues the loop
SupSpawnFailed(t) ==
    /\ exited = "no"
    /\ sup[t].pc = "spawn_failed"
    /\ state_guard = "none"
    /\ jobs' = SetJobState(sup[t].job, Failed)
    /\ sup' = [sup EXCEPT ![t].pc = IF sup[t].in_loop THEN "pop_front" ELSE "release"]
    /\ UNCHANGED <<auxVars, gpus, should_quit, state_guard, queue, gpu_rx, busy,
                   running_jobs, running_guard, proc, main, ctrlc, signalled, ui, exited>>

\* running_jobs.lock().await.insert(job.id, pid)
SupTrack(t) ==
    /\ exited = "no"
    /\ sup[t].pc = "track"
    /\ running_guard = "none"
    /\ running_jobs' = running_jobs \cup {sup[t].job}
    /\ sup' = [sup EXCEPT ![t].pc = "wait"]
    /\ UNCHANGED <<auxVars, gpus, jobs, should_quit, state_guard, queue, gpu_rx, busy,
                   running_guard, proc, main, ctrlc, signalled, ui, exited>>

\* SupWait not waiting for the process to end (a try_wait in place of wait)
SupWait_no_wait(t) ==
    /\ exited = "no"
    /\ sup[t].pc = "wait"
    /\ state_guard = "none"
    /\ jobs' = SetJobState(sup[t].job,
                           IF proc[sup[t].job].status = "ok" THEN Completed ELSE Failed)
    /\ sup' = [sup EXCEPT ![t].pc = "untrack"]
    /\ UNCHANGED <<auxVars, gpus, should_quit, state_guard, queue, gpu_rx, busy,
                   running_jobs, running_guard, proc, main, ctrlc, signalled, ui, exited>>

\* child_process.wait().await, then publish Completed or Failed
SupWait(t) ==
    /\ exited = "no"
    /\ sup[t].pc = "wait"
    /\ Exited(proc[sup[t].job])
    /\ state_guard = "none"
    /\ jobs' = SetJobState(sup[t].job,
                           IF proc[sup[t].job].status = "ok" THEN Completed ELSE Failed)
    /\ sup' = [sup EXCEPT ![t].pc = "untrack"]
    /\ UNCHANGED <<auxVars, gpus, should_quit, state_guard, queue, gpu_rx, busy,
                   running_jobs, running_guard, proc, main, ctrlc, signalled, ui, exited>>

\* SupUntrack going on to the queue without removing the entry
SupUntrack_keeps(t) ==
    /\ exited = "no"
    /\ sup[t].pc = "untrack"
    /\ running_guard = "none"
    /\ sup' = [sup EXCEPT ![t].pc = "pop_front"]
    /\ UNCHANGED <<auxVars, gpus, jobs, should_quit, state_guard, queue, gpu_rx, busy, running_jobs,
                   running_guard, proc, main, ctrlc, signalled, ui, exited>>


\* SupUntrack of a supervisor without a drain loop: one job, then the release
SupUntrack_release(t) ==
    /\ exited = "no"
    /\ sup[t].pc = "untrack"
    /\ running_guard = "none"
    /\ running_jobs' = running_jobs \ {sup[t].job}
    /\ sup' = [sup EXCEPT ![t].pc = "release"]
    /\ UNCHANGED <<auxVars, gpus, jobs, should_quit, state_guard, queue, gpu_rx, busy,
                   running_guard, proc, main, ctrlc, signalled, ui, exited>>

\* running_jobs.lock().await.remove(&job.id)
SupUntrack(t) ==
    /\ exited = "no"
    /\ sup[t].pc = "untrack"
    /\ running_guard = "none"
    /\ running_jobs' = running_jobs \ {sup[t].job}
    /\ sup' = [sup EXCEPT ![t].pc = "pop_front"]
    /\ UNCHANGED <<auxVars, gpus, jobs, should_quit, state_guard, queue, gpu_rx, busy,
                   running_guard, proc, main, ctrlc, signalled, ui, exited>>

\* SupPopFront reading the head of the queue without removing it (front())
SupPopFront_front(t) ==
    /\ exited = "no"
    /\ sup[t].pc = "pop_front"
    /\ IF queue # <<>>
       THEN sup' = [sup EXCEPT ![t] = [pc |-> "set_running", job |-> Head(queue),
                                       gpu |-> sup[t].gpu, in_loop |-> TRUE]]
       ELSE sup' = [sup EXCEPT ![t].pc = "release"]
    /\ UNCHANGED <<auxVars, gpus, jobs, should_quit, state_guard, queue, gpu_rx, busy,
                   running_jobs, running_guard, proc, main, ctrlc, signalled, ui, exited>>

\* loop: queue.lock().await.pop_front(); None leads to the release
SupPopFront(t) ==
    /\ exited = "no"
    /\ sup[t].pc = "pop_front"
    /\ IF queue # <<>>
       THEN /\ queue' = Tail(queue)
            /\ sup' = [sup EXCEPT ![t] = [pc |-> "set_running", job |-> Head(queue),
                                          gpu |-> sup[t].gpu, in_loop |-> TRUE]]
       ELSE /\ sup' = [sup EXCEPT ![t].pc = "release"]
            /\ UNCHANGED queue
    /\ UNCHANGED <<auxVars, gpus, jobs, should_quit, state_guard, gpu_rx, busy,
                   running_jobs, running_guard, proc, main, ctrlc, signalled, ui, exited>>

\* SupSetRunning not finding the record: the job stays Queued
SupSetRunning_stays_queued(t) ==
    /\ exited = "no"
    /\ sup[t].pc = "set_running"
    /\ state_guard = "none"
    /\ sup' = [sup EXCEPT ![t].pc = "spawn"]
    /\ UNCHANGED <<auxVars, gpus, jobs, should_quit, state_guard, queue, gpu_rx, busy,
                   running_jobs, running_guard, proc, main, ctrlc, signalled, ui, exited>>

\* Some(next): publish Running { gpu_id: gpu } for the job taken from the queue
SupSetRunning(t) ==
    /\ exited = "no"
    /\ sup[t].pc = "set_running"
    /\ state_guard = "none"
    /\ jobs' = SetJobState(sup[t].job, Running(sup[t].gpu))
    /\ sup' = [sup EXCEPT ![t].pc = "spawn"]
    /\ UNCHANGED <<auxVars, gpus, should_quit, state_guard, queue, gpu_rx, busy,
                   running_jobs, running_guard, proc, main, ctrlc, signalled, ui, exited>>

\* SupRelease leaving the loop without sending the GPU back
SupRelease_skipped(t) ==
    /\ exited = "no"
    /\ sup[t].pc = "release"
    /\ sup' = [sup EXCEPT ![t].pc = "fetch_sub"]
    /\ UNCHANGED <<auxVars, gpus, jobs, should_quit, state_guard, queue, gpu_rx, busy,
                   running_jobs, running_guard, proc, main, ctrlc, signalled, ui, exited>>

\* tx.send(gpu).ok()
SupRelease(t) ==
    /\ exited = "no"
    /\ sup[t].pc = "release"
    /\ gpu_rx' = Append(gpu_rx, sup[t].gpu)
    /\ sup' = [sup EXCEPT ![t].pc = "fetch_sub"]
    /\ UNCHANGED <<auxVars, gpus, jobs, should_quit, state_guard, queue, busy,
                   running_jobs, running_guard, proc, main, ctrlc, signalled, ui, exited>>

\* SupFetchSub after a release path that has already decremented once
SupFetchSub_twice(t) ==
    /\ exited = "no"
    /\ sup[t].pc = "fetch_sub"
    /\ busy' = busy - 2
    /\ sup' = [sup EXCEPT ![t] = SupOff]
    /\ UNCHANGED <<auxVars, gpus, jobs, should_quit, state_guard, queue, gpu_rx,
                   running_jobs, running_guard, proc, main, ctrlc, signalled, ui, exited>>


\* SupFetchSub ending the task without the decrement
SupFetchSub_forgets(t) ==
    /\ exited = "no"
    /\ sup[t].pc = "fetch_sub"
    /\ sup' = [sup EXCEPT ![t] = SupOff]
    /\ UNCHANGED <<auxVars, gpus, jobs, should_quit, state_guard, queue, gpu_rx, busy,
                   running_jobs, running_guard, proc, main, ctrlc, signalled, ui, exited>>

\* busy.fetch_sub(1), and the task ends
SupFetchSub(t) ==
    /\ exited = "no"
    /\ sup[t].pc = "fetch_sub"
    /\ busy' = busy - 1
    /\ sup' = [sup EXCEPT ![t] = SupOff]
    /\ UNCHANGED <<auxVars, gpus, jobs, should_quit, state_guard, queue, gpu_rx,
                   running_jobs, running_guard, proc, main, ctrlc, signalled, ui, exited>>

(***************************************************************************)
(* The child processes                                                     *)
(***************************************************************************)

\* A process that does not ignore signals ends by itself, with exit code
\* zero or not.
ProcExit(j) ==
    /\ exited = "no"
    /\ proc[j].status = "run"
    /\ \E st \in {"ok", "fail"} : proc' = [proc EXCEPT ![j].status = st]
    /\ UNCHANGED <<auxVars, gpus, jobs, should_quit, state_guard, queue, gpu_rx, busy,
                   running_jobs, running_guard, sup, main, ctrlc, signalled, ui, exited>>

(***************************************************************************)
(* The Ctrl+C handler task of main, and Scheduler::kill_all_jobs           *)
(***************************************************************************)

\* nix::sys::signal::kill(pid, SIGTERM): a running process that does not
\* ignore the signal ends unsuccessfully; ESRCH for an exited one is logged
SigTerm(p) == IF p.status = "run" THEN [p EXCEPT !.status = "fail"] ELSE p

\* nix::sys::signal::kill(pid, SIGKILL): every process still alive ends
SigKill(p) == IF Alive(p) THEN [p EXCEPT !.status = "fail"] ELSE p

\* CtrlC with a sweep that empties running_jobs as it goes (drain())
CtrlC_drains ==
    /\ exited = "no"
    /\ ctrlc = "armed"
    /\ state_guard = "none"
    /\ running_guard = "none"
    /\ IF main.pc = "select"
       THEN state_guard' = "ctrlc" /\ should_quit' = TRUE
       ELSE UNCHANGED <<state_guard, should_quit>>
    /\ running_guard' = "kill_all_jobs"
    /\ proc' = [j \in JobIds |-> IF j \in running_jobs THEN SigTerm(proc[j]) ELSE proc[j]]
    /\ signalled' = [signalled EXCEPT !.term = running_jobs]
    /\ running_jobs' = {}
    /\ ctrlc' = "sleep"
    /\ UNCHANGED <<auxVars, gpus, jobs, queue, gpu_rx, busy, sup, main, ui, exited>>


\* The operator presses Ctrl+C and signal::ctrl_c().await returns. The
\* dashboard handler takes ctrlc_state.write().await, whose guard lives to
\* the end of the handler, and sets should_quit; both handlers then call
\* kill_all_jobs: let jobs = self.running_jobs.lock().await; SIGTERM to every
\* tracked process; the guard `jobs` is not dropped before the sleep.
CtrlC ==
    /\ exited = "no"
    /\ ctrlc = "armed"
    /\ state_guard = "none"
    /\ running_guard = "none"
    /\ IF main.pc = "select"
       THEN state_guard' = "ctrlc" /\ should_quit' = TRUE
       ELSE UNCHANGED <<state_guard, should_quit>>
    /\ running_guard' = "kill_all_jobs"
    /\ proc' = [j \in JobIds |-> IF j \in running_jobs THEN SigTerm(proc[j]) ELSE proc[j]]
    /\ signalled' = [signalled EXCEPT !.term = running_jobs]
    /\ ctrlc' = "sleep"
    /\ UNCHANGED <<auxVars, gpus, jobs, queue, gpu_rx, busy, running_jobs, sup, main, ui, exited>>

\* kill_all_jobs after the sleep: self.running_jobs.lock().await a second
\* time. When the Mutex is free: SIGKILL to every tracked process, return
\* (both guards dropped), and the caller ends the program (exit(1), or the
\* ctrlc_handle branch of select!). When the Mutex is held the task waits
\* for it.
KillAllJobsForce ==
    /\ exited = "no"
    /\ ctrlc = "sleep"
    /\ IF running_guard = "none"
       THEN /\ proc' = [j \in JobIds |->
                           IF j \in running_jobs THEN SigKill(proc[j]) ELSE proc[j]]
            /\ signalled' = [signalled EXCEPT !.kill = running_jobs]
            /\ ctrlc' = "returned"
            /\ state_guard' = "none"
            /\ exited' = "abort"
            /\ UNCHANGED running_guard
       ELSE /\ ctrlc' = "blocked"
            /\ UNCHANGED <<proc, signalled, state_guard, exited, running_guard>>
    /\ UNCHANGED <<auxVars, gpus, jobs, should_quit, queue, gpu_rx, busy,
                   running_jobs, sup, main, ui>>

(***************************************************************************)
(* The dashboard task UI::run                                              *)
(***************************************************************************)

AllJobsDone == jobs # <<>> /\ \A i \in DOMAIN jobs : IsTerminal(jobs[i].state)

\* One turn of the loop that leaves it: should_quit, or the auto-exit when
\* all jobs are done; ui_handle completes, select! returns and main ends.
UIRunBreak ==
    /\ exited = "no"
    /\ ui = "run"
    /\ state_guard = "none"
    /\ should_quit \/ AllJobsDone
    /\ ui' = "done"
    /\ exited' = IF should_quit THEN "quit" ELSE "idle"
    /\ UNCHANGED <<auxVars, gpus, jobs, should_quit, state_guard, queue, gpu_rx, busy,
                   running_jobs, running_guard, proc, sup, main, ctrlc, signalled>>

\* KeyCode::Char('q') => state.should_quit = true
UIKeyQ ==
    /\ exited = "no"
    /\ ui = "run"
    /\ state_guard = "none"
    /\ ~should_quit
    /\ should_quit' = TRUE
    /\ UNCHANGED <<auxVars, gpus, jobs, state_guard, queue, gpu_rx, busy,
                   running_jobs, running_guard, proc, sup, main, ctrlc, signalled, ui, exited>>

(***************************************************************************)
(* The program                                                             *)
(***************************************************************************)

MainStep ==
    \/ Submit
    \/ SubmitTryRecv
    \/ SubmitPushBack
    \/ SpawnJobFetchAdd
    \/ SpawnJobSetRunning
    \/ EndOfFile
    \/ MainWaitLoop

SupStep(t) ==
    \/ SupSpawn(t)
    \/ SupSpawnFailed(t)
    \/ SupTrack(t)
    \/ SupWait(t)
    \/ SupUntrack(t)
    \/ SupPopFront(t)
    \/ SupSetRunning(t)
    \/ SupRelease(t)
    \/ SupFetchSub(t)


\* Every step is a step of the running program (exited = "no"): nothing runs
\* once it has ended.
Next ==
    \/ MainStep
    \/ \E t \in JobIds : SupStep(t)
    \/ \E j \in JobIds : ProcExit(j)
    \/ CtrlC
    \/ KillAllJobsForce
    \/ UIRunBreak
    \/ UIKeyQ

Spec == Init /\ [][Next]_vars

\* The tokio runtime runs every task that can take a step, and a process
\* that does not ignore signals ends; the operator (Ctrl+C, 'q') and the
\* processes that never end are under no obligation.
Fairness ==
    /\ WF_vars(MainStep)
    /\ \A t \in JobIds : WF_vars(SupStep(t))
    /\ \A j \in JobIds : WF_vars(ProcExit(j))
    /\ WF_vars(KillAllJobsForce)
    /\ WF_vars(UIRunBreak)

FairSpec == Spec /\ Fairness

(***************************************************************************)
(* Log capture: the stdout and stderr reader tasks of one job              *)
(***************************************************************************)

\* if job_info.log_lines.len() > 1000
LogCap == 1000

\* how many lines the child writes to stdout / to stderr while it is followed
MaxOut == 3
MaxErr == 2

MaxLines(s) == IF s = "stdout" THEN MaxOut ELSE MaxErr

\* the job whose output is followed: the first job of the list
ObservedJob == jobs[1].id

\* The line numbered k that the child writes to stream s: the lines written
\* while the child is followed are numbered from 1, those written before
\* from 0 downwards. A line that is not UTF-8 makes next_line() return Err.
Line(s, k) == <<s, k>>
InvalidLine(k) == <<"invalid", k>>
IsUtf8(line) == line[1] # "invalid"

\* line.clone() for stdout, format!("[stderr] {}", line) for stderr
Entry(s, line) == IF s = "stderr" THEN <<"[stderr] ">> \o line ELSE line

\* how many stdout lines the child has written, and the readers have
\* appended, before it is followed
Prefill == {0, LogCap - 1, LogCap, LogCap + 1}

\* log_lines after push_back(entry) and, when longer than 1000, pop_front()
PushLine(buf, entry) ==
    IF Len(buf) + 1 > LogCap THEN Tail(Append(buf, entry)) ELSE Append(buf, entry)

\* the last n elements of seq
LastN(seq, n) == SubSeq(seq, Len(seq) - n + 1, Len(seq))

\* The dashboard run on a machine with one GPU has submitted its first job:
\* spawn_job took the GPU, the
\* child runs with piped stdout and stderr, both reader tasks are in
\* next_line().await, and the child has written n0 stdout lines that the
\* stdout reader has appended already.
LogInit ==
    /\ gpus = <<0>>
    /\ gpu_rx = Tail(gpus)
    /\ jobs = <<[id |-> 1, state |-> Running(gpus[1])]>>
    /\ should_quit = FALSE
    /\ state_guard = "none"
    /\ queue = <<>>
    /\ busy = 1
    /\ running_jobs = {1}
    /\ running_guard = "none"
    /\ proc = [j \in JobIds |-> IF j = 1 THEN [status |-> "run", cuda |-> gpus[1]] ELSE NoProc]
    /\ sup = [t \in JobIds |->
                 IF t = 1 THEN [pc |-> "wait", job |-> 1, gpu |-> gpus[1], in_loop |-> FALSE]
                 ELSE SupOff]
    /\ main = MainAt("read")
    /\ ctrlc = "off"
    /\ signalled = [term |-> {}, kill |-> {}]
    /\ ui = "off"
    /\ exited = "no"
    /\ \E n0 \in Prefill :
          /\ emitted = [s \in Streams |->
                           IF s = "stdout" THEN [i \in 1..n0 |-> Line(s, i - n0)] ELSE <<>>]
          /\ appended = [i \in 1..n0 |-> Line("stdout", i - n0)]
          /\ log_lines = LastN(appended, IF n0 > LogCap THEN LogCap ELSE n0)
    /\ stdio = [s \in Streams |-> <<>>]
    /\ reader = [s \in Streams |-> [pc |-> "next_line", line |-> <<>>]]
    /\ file_content = <<"a">>
    /\ lines_read = 1
    /\ cmds = <<<<"a">>>>
    /\ NoRemote

\* the number of the next line the child writes to stream s
NextNo(s) == IF emitted[s] = <<>> THEN 1 ELSE emitted[s][Len(emitted[s])][2] + 1

\* The child of the observed job writes one more line to its stdout or its
\* stderr pipe (Stdio::piped()).
ProcWrite(s) ==
    /\ exited = "no"
    /\ Alive(proc[ObservedJob])
    /\ NextNo(s) <= MaxLines(s)
    /\ \E utf8 \in BOOLEAN :
          LET line == IF utf8 THEN Line(s, NextNo(s)) ELSE InvalidLine(NextNo(s))
          IN /\ emitted' = [emitted EXCEPT ![s] = Append(@, line)]
             /\ stdio' = [stdio EXCEPT ![s] = Append(@, line)]
    /\ UNCHANGED <<reader, log_lines, appended>>
    /\ UNCHANGED <<bulkVars, remoteVars, gpus, jobs, should_quit, state_guard, queue, gpu_rx, busy,
                   running_jobs, running_guard, proc, sup, main, ctrlc, signalled, ui, exited>>

\* ReaderNextLine handing out the newest line of the pipe instead of the oldest
ReaderNextLine_newest(s) ==
    /\ exited = "no"
    /\ reader[s].pc = "next_line"
    /\ IF stdio[s] # <<>>
       THEN /\ stdio' = [stdio EXCEPT ![s] = SubSeq(@, 1, Len(@) - 1)]
            /\ reader' = [reader EXCEPT ![s] =
                             IF IsUtf8(stdio[s][Len(stdio[s])])
                             THEN [pc |-> "push", line |-> stdio[s][Len(stdio[s])]]
                             ELSE [pc |-> "done", line |-> <<>>]]
       ELSE /\ ~Alive(proc[ObservedJob])
            /\ reader' = [reader EXCEPT ![s] = [pc |-> "done", line |-> <<>>]]
            /\ UNCHANGED stdio
    /\ UNCHANGED <<emitted, log_lines, appended>>
    /\ UNCHANGED <<bulkVars, remoteVars, gpus, jobs, should_quit, state_guard, queue, gpu_rx, busy,
                   running_jobs, running_guard, proc, sup, main, ctrlc, signalled, ui, exited>>

\* lines.next_line().await of the reader of stream s: the next line of the
\* pipe; Ok(None) at end of file, once the child has exited and the pipe is
\* empty; Err for a line that is not UTF-8. `while let Ok(Some(line))` ends
\* the task in both last cases.
ReaderNextLine(s) ==
    /\ exited = "no"
    /\ reader[s].pc = "next_line"
    /\ IF stdio[s] # <<>>
       THEN /\ stdio' = [stdio EXCEPT ![s] = Tail(@)]
            /\ reader' = [reader EXCEPT ![s] =
                             IF IsUtf8(Head(stdio[s]))
                             THEN [pc |-> "push", line |-> Head(stdio[s])]
                             ELSE [pc |-> "done", line |-> <<>>]]
       ELSE /\ ~Alive(proc[ObservedJob])
            /\ reader' = [reader EXCEPT ![s] = [pc |-> "done", line |-> <<>>]]
            /\ UNCHANGED stdio
    /\ UNCHANGED <<emitted, log_lines, appended>>
    /\ UNCHANGED <<bulkVars, remoteVars, gpus, jobs, should_quit, state_guard, queue, gpu_rx, busy,
                   running_jobs, running_guard, proc, sup, main, ctrlc, signalled, ui, exited>>

\* ReaderPush without the eviction of the oldest line
ReaderPush_unbounded(s) ==
    /\ exited = "no"
    /\ reader[s].pc = "push"
    /\ state_guard = "none"
    /\ log_lines' = Append(log_lines, Entry(s, reader[s].line))
    /\ appended' = Append(appended, Entry(s, reader[s].line))
    /\ reader' = [reader EXCEPT ![s] = [pc |-> "next_line", line |-> <<>>]]
    /\ UNCHANGED <<stdio, emitted>>
    /\ UNCHANGED <<bulkVars, remoteVars, gpus, jobs, should_quit, state_guard, queue, gpu_rx, busy,
                   running_jobs, running_guard, proc, sup, main, ctrlc, signalled, ui, exited>>

\* The body of the reader loop under state_clone.write().await: find the job,
\* push_back the line (tagged for stderr), pop_front when the buffer is
\* longer than 1000; the guard is dropped at the end of the iteration.
ReaderPush(s) ==
    /\ exited = "no"
    /\ reader[s].pc = "push"
    /\ state_guard = "none"
    /\ IF \E i \in DOMAIN jobs : jobs[i].id = ObservedJob
       THEN /\ log_lines' = PushLine(log_lines, Entry(s, reader[s].line))
            /\ appended' = Append(appended, Entry(s, reader[s].line))
       ELSE UNCHANGED <<log_lines, appended>>
    /\ reader' = [reader EXCEPT ![s] = [pc |-> "next_line", line |-> <<>>]]
    /\ UNCHANGED <<stdio, emitted>>
    /\ UNCHANGED <<bulkVars, remoteVars, gpus, jobs, should_quit, state_guard, queue, gpu_rx, busy,
                   running_jobs, running_guard, proc, sup, main, ctrlc, signalled, ui, exited>>

\* The child writes and exits while the two readers follow its pipes; the
\* rest of the program stands still.
LogNext ==
    \/ \E s \in Streams : ProcWrite(s)
    \/ \E s \in Streams : ReaderNextLine(s)
    \/ \E s \in Streams : ReaderPush(s)
    \/ ProcExit(ObservedJob)

LogSpec == LogInit /\ [][LogNext]_vars

\* The same with the supervisor of the observed job, which waits for the
\* child and publishes its exit; the reader tasks are detached (tokio::spawn
\* without a kept JoinHandle) and nothing waits for them.
LogExitNext ==
    \/ LogNext
    \/ SupWait(ObservedJob)

LogExitSpec == LogInit /\ [][LogExitNext]_vars

(***************************************************************************)
(* Bulk submission: main's loop over the lines of the command file         *)
(***************************************************************************)

\* the longest command file followed, in characters
MaxFile == 5

\* the characters of a command file
Chars == {"a", "b", " ", "\r", "\n"}

\* char::is_whitespace, as far as Chars goes
IsWhitespace(c) == c \in {" ", "\r", "\n"}

\* the texts of at most MaxFile characters
Texts == UNION {[1..n -> Chars] : n \in 0..MaxFile}

\* text.split_inclusive('\n'): the pieces of text, each ending with its "\n",
\* the last one without when text does not end with "\n"; none for ""
RECURSIVE SplitInclusive(_)
SplitInclusive(text) ==
    IF text = <<>> THEN <<>>
    ELSE IF \E i \in 1..Len(text) : text[i] = "\n"
         THEN LET i == CHOOSE i \in 1..Len(text) :
                          text[i] = "\n" /\ \A k \in 1..(i - 1) : text[k] # "\n"
              IN <<SubSeq(text, 1, i)>> \o SplitInclusive(SubSeq(text, i + 1, Len(text)))
         ELSE <<text>>

\* line.strip_suffix(c), or the line itself
StripSuffix(line, c) ==
    IF line # <<>> /\ line[Len(line)] = c THEN SubSeq(line, 1, Len(line) - 1) ELSE line

\* str::lines: every piece without its "\n" or "\r\n"; a piece that does not
\* end with "\n" is left as it is
Lines(text) ==
    LET pieces == SplitInclusive(text)
    IN [i \in 1..Len(pieces) |->
           IF pieces[i][Len(pieces[i])] = "\n"
           THEN StripSuffix(StripSuffix(pieces[i], "\n"), "\r")
           ELSE pieces[i]]

\* str::trim_start, str::trim_end, str::trim
RECURSIVE TrimStart(_)
TrimStart(line) ==
    IF line # <<>> /\ IsWhitespace(Head(line)) THEN TrimStart(Tail(line)) ELSE line

RECURSIVE TrimEnd(_)
TrimEnd(line) ==
    IF line # <<>> /\ IsWhitespace(line[Len(line)])
    THEN TrimEnd(SubSeq(line, 1, Len(line) - 1))
    ELSE line

Trim(line) == TrimEnd(TrimStart(line))

\* Scheduler::new and AppState::new, and read_to_string has returned the text
\* of the command file
BulkInit ==
    /\ \E S \in 1..MaxSlots : gpus = [i \in 1..S |-> i - 1]
    /\ gpu_rx = gpus
    /\ jobs = <<>>
    /\ should_quit = FALSE
    /\ state_guard = "none"
    /\ queue = <<>>
    /\ busy = 0
    /\ running_jobs = {}
    /\ running_guard = "none"
    /\ proc = [j \in JobIds |-> NoProc]
    /\ sup = [t \in JobIds |-> SupOff]
    /\ main = MainAt("read")
    /\ ctrlc = "off"
    /\ signalled = [term |-> {}, kill |-> {}]
    /\ ui = "off"
    /\ exited = "no"
    /\ NoOutput
    /\ file_content \in {text \in Texts : Len(Lines(text)) <= MaxJobs}
    /\ lines_read = 0
    /\ cmds = <<>>
    /\ NoRemote

\* ReadLine submitting every line, blank or not
ReadLine_every_line ==
    /\ exited = "no"
    /\ main.pc = "read"
    /\ lines_read < Len(Lines(file_content))
    /\ lines_read' = lines_read + 1
    /\ state_guard = "none"
    /\ Len(jobs) < MaxJobs
    /\ jobs' = Append(jobs, JobInfo(Len(jobs) + 1))
    /\ cmds' = Append(cmds, Trim(Lines(file_content)[lines_read + 1]))
    /\ main' = [pc |-> "try_recv", job |-> Len(jobs) + 1, gpu |-> 0]
    /\ UNCHANGED file_content
    /\ UNCHANGED <<logVars, remoteVars, gpus, should_quit, state_guard, queue, gpu_rx, busy,
                   running_jobs, running_guard, proc, sup, ctrlc, signalled, ui, exited>>

\* One turn of `for line in file_content.lines()`: cmd = line.trim(); a blank
\* line is passed over; otherwise submit(cmd) is called and publishes
\* JobInfo { id, cmd, state: Queued, .. } under the AppState write lock.
ReadLine ==
    /\ exited = "no"
    /\ main.pc = "read"
    /\ lines_read < Len(Lines(file_content))
    /\ lines_read' = lines_read + 1
    /\ LET cmd == Trim(Lines(file_content)[lines_read + 1])
       IN IF cmd # <<>>
          THEN /\ state_guard = "none"
               /\ jobs' = Append(jobs, JobInfo(Len(jobs) + 1))
               /\ cmds' = Append(cmds, cmd)
               /\ main' = [pc |-> "try_recv", job |-> Len(jobs) + 1, gpu |-> 0]
          ELSE UNCHANGED <<jobs, cmds, main>>
    /\ UNCHANGED file_content
    /\ UNCHANGED <<logVars, remoteVars, gpus, should_quit, state_guard, queue, gpu_rx, busy,
                   running_jobs, running_guard, proc, sup, ctrlc, signalled, ui, exited>>

\* main reads the file line by line and each submit call runs to its end; the
\* supervisor tasks are not followed.
BulkNext ==
    \/ ReadLine
    \/ SubmitTryRecv
    \/ SubmitPushBack
    \/ SpawnJobFetchAdd
    \/ SpawnJobSetRunning

BulkSpec == BulkInit /\ [][BulkNext]_vars

(***************************************************************************)
(* Remote submission: client submit, and the server's handle_client and    *)
(* scheduler loop                                                          *)
(***************************************************************************)

\* the most commands one client call sends
MaxStdin == 3

\* the commands a client sends
Cmds == {"a", "b"}

\* what the client is asked to send: cmd_opt = Some(cmd) is the one command
\* cmd; with cmd_opt = None every line of stdin is one command, blank or not
Inputs == UNION {[1..n -> Cmds] : n \in 0..MaxStdin}

\* json!({"type":"submit","cmd":cmd,"gpus":gpus}).to_string() followed by "\n"
ToLine(cmd, g) == <<"{", "type", "submit", "cmd", cmd, "gpus", g, "}", "\n">>

\* serde_json::from_str(&buf), v["type"].as_str(), v["cmd"].as_str(),
\* v["gpus"].as_u64()
FromLine(line) ==
    IF Len(line) = 9 /\ line[1] = "{" /\ line[8] = "}" /\ line[2] = "type"
                     /\ line[4] = "cmd" /\ line[6] = "gpus"
    THEN [ok |-> TRUE, type |-> line[3], cmd |-> line[5], gpus |-> line[7]]
    ELSE [ok |-> FALSE, type |-> "", cmd |-> "", gpus |-> 0]

\* JobSpec { id: Uuid::new_v4(), cmd, gpus }, without the random id
RemoteJob(cmd, g) == [cmd |-> cmd, gpus |-> g]

\* The server listens and its scheduler loop waits in select!; a client has
\* been started with commands to send.
RemoteInit ==
    /\ \E S \in 1..MaxSlots : gpus = [i \in 1..S |-> i - 1]
    /\ gpu_rx = gpus
    /\ jobs = <<>>
    /\ should_quit = FALSE
    /\ state_guard = "none"
    /\ queue = <<>>
    /\ busy = 0
    /\ running_jobs = {}
    /\ running_guard = "none"
    /\ proc = [j \in JobIds |-> NoProc]
    /\ sup = [t \in JobIds |-> SupOff]
    /\ main = MainAt("read")
    /\ ctrlc = "off"
    /\ signalled = [term |-> {}, kill |-> {}]
    /\ ui = "off"
    /\ exited = "no"
    /\ NoOutput
    /\ NoFile
    /\ \E todo \in Inputs, g \in 1..Len(gpus) :
          client = [pc |-> "connect", todo |-> todo, gpus |-> g, written |-> <<>>]
    /\ stream = [state |-> "none", c2s |-> <<>>, s2c |-> <<>>,
                 client_closed |-> FALSE, server_closed |-> FALSE]
    /\ handler = [pc |-> "off", line |-> <<>>, acks |-> 0]
    /\ rx = <<>>
    /\ sched_jobs = <<>>

\* client submit: UnixStream::connect(socket).await
ClientConnect ==
    /\ client.pc = "connect"
    /\ client' = [client EXCEPT !.pc = "write"]
    /\ stream' = [stream EXCEPT !.state = "pending"]
    /\ UNCHANGED <<handler, rx, sched_jobs>>
    /\ UNCHANGED <<logVars, bulkVars, gpus, jobs, should_quit, state_guard, queue, gpu_rx,
                   busy, running_jobs, running_guard, proc, sup, main, ctrlc, signalled,
                   ui, exited>>

\* server run, accept loop: listener.accept().await and
\* tokio::spawn(handle_client(stream, tx))
ServerAccept ==
    /\ stream.state = "pending"
    /\ stream' = [stream EXCEPT !.state = "accepted"]
    /\ handler' = [handler EXCEPT !.pc = "read_line"]
    /\ UNCHANGED <<client, rx, sched_jobs>>
    /\ UNCHANGED <<logVars, bulkVars, gpus, jobs, should_quit, state_guard, queue, gpu_rx,
                   busy, running_jobs, running_guard, proc, sup, main, ctrlc, signalled,
                   ui, exited>>

\* client submit: the next command as one JSON line, stream.write_all(..)
\* .await?; the write fails once the server has dropped its end, and `?`
\* ends the call. After the last command Ok(()) is returned. Either way the
\* client's end of the stream is dropped.
ClientWrite ==
    /\ client.pc = "write"
    /\ IF client.todo = <<>>
       THEN /\ client' = [client EXCEPT !.pc = "done"]
            /\ stream' = [stream EXCEPT !.client_closed = TRUE]
       ELSE IF stream.server_closed
       THEN /\ client' = [client EXCEPT !.pc = "failed"]
            /\ stream' = [stream EXCEPT !.client_closed = TRUE]
       ELSE /\ client' = [client EXCEPT !.todo = Tail(@),
                                        !.written = Append(@, Head(client.todo))]
            /\ stream' = [stream EXCEPT !.c2s = Append(@, ToLine(Head(client.todo), client.gpus))]
    /\ UNCHANGED <<handler, rx, sched_jobs>>
    /\ UNCHANGED <<logVars, bulkVars, gpus, jobs, should_quit, state_guard, queue, gpu_rx,
                   busy, running_jobs, running_guard, proc, sup, main, ctrlc, signalled,
                   ui, exited>>

\* handle_client: reader.read_line(&mut buf).await; return on end of file;
\* otherwise parse the line and, for a submit message with cmd and gpus,
\* tx.send(ServerMsg::Submit(job))
HandleClientReadLine ==
    /\ handler.pc = "read_line"
    /\ IF stream.c2s # <<>>
       THEN LET v == FromLine(Head(stream.c2s))
            IN /\ stream' = [stream EXCEPT !.c2s = Tail(@)]
               /\ IF v.ok /\ v.type = "submit"
                  THEN /\ rx' = Append(rx, RemoteJob(v.cmd, v.gpus))
                       /\ handler' = [handler EXCEPT !.pc = "ack", !.line = Head(stream.c2s)]
                  ELSE /\ handler' = [handler EXCEPT !.pc = "return", !.line = Head(stream.c2s)]
                       /\ UNCHANGED rx
       ELSE /\ stream.client_closed
            /\ handler' = [handler EXCEPT !.pc = "return"]
            /\ UNCHANGED <<stream, rx>>
    /\ UNCHANGED <<client, sched_jobs>>
    /\ UNCHANGED <<logVars, bulkVars, gpus, jobs, should_quit, state_guard, queue, gpu_rx,
                   busy, running_jobs, running_guard, proc, sup, main, ctrlc, signalled,
                   ui, exited>>

\* handle_client: let _ = stream.write_all(b"{\"ok\":true}\n").await, which
\* reaches the client's end unless that is dropped already
HandleClientAck ==
    /\ handler.pc = "ack"
    /\ handler' = [handler EXCEPT !.pc = "return", !.acks = @ + 1]
    /\ stream' = IF stream.client_closed THEN stream
                 ELSE [stream EXCEPT !.s2c = Append(@, <<"{", "ok", TRUE, "}", "\n">>)]
    /\ UNCHANGED <<client, rx, sched_jobs>>
    /\ UNCHANGED <<logVars, bulkVars, gpus, jobs, should_quit, state_guard, queue, gpu_rx,
                   busy, running_jobs, running_guard, proc, sup, main, ctrlc, signalled,
                   ui, exited>>

\* handle_client returns after its one line: the task ends and its stream is
\* dropped, with whatever the client has written and the server not read
HandleClientReturn ==
    /\ handler.pc = "return"
    /\ handler' = [handler EXCEPT !.pc = "done"]
    /\ stream' = [stream EXCEPT !.server_closed = TRUE]
    /\ UNCHANGED <<client, rx, sched_jobs>>
    /\ UNCHANGED <<logVars, bulkVars, gpus, jobs, should_quit, state_guard, queue, gpu_rx,
                   busy, running_jobs, running_guard, proc, sup, main, ctrlc, signalled,
                   ui, exited>>

\* server run, scheduler loop: Some(msg) = rx.recv() => sched.submit(job)
SchedulerRecv ==
    /\ rx # <<>>
    /\ sched_jobs' = Append(sched_jobs, Head(rx))
    /\ rx' = Tail(rx)
    /\ UNCHANGED <<client, stream, handler>>
    /\ UNCHANGED <<logVars, bulkVars, gpus, jobs, should_quit, state_guard, queue, gpu_rx,
                   busy, running_jobs, running_guard, proc, sup, main, ctrlc, signalled,
                   ui, exited>>

RemoteNext ==
    \/ ClientConnect
    \/ ClientWrite
    \/ ServerAccept
    \/ HandleClientReadLine
    \/ HandleClientAck
    \/ HandleClientReturn
    \/ SchedulerRecv

RemoteSpec == RemoteInit /\ [][RemoteNext]_vars

\* The runtimes of client and server run every task that can take a step.
RemoteFairness ==
    /\ WF_vars(ClientConnect)
    /\ WF_vars(ClientWrite)
    /\ WF_vars(ServerAccept)
    /\ WF_vars(HandleClientReadLine)
    /\ WF_vars(HandleClientAck)
    /\ WF_vars(HandleClientReturn)
    /\ WF_vars(SchedulerRecv)

FairRemoteSpec == RemoteSpec /\ RemoteFairness

(***************************************************************************)
(* Properties                                                              *)
(***************************************************************************)

\* The jobs whose published state is Running
RunningJobs == {i \in DOMAIN jobs : IsRunning(jobs[i].state)}

\* No submit call is in progress
NoSubmitInProgress == main.pc \in {"read", "wait", "select"}

\* C1: in every reachable state the number of jobs whose published state is
\* Running is at most the number S of GPUs.
C1_AtMostSRunning == Cardinality(RunningJobs) <= Len(gpus)

\* Both GPUs carry a Running job while a third job waits in the queue.
C1_Witness ==
    /\ Len(gpus) = 2
    /\ Cardinality(RunningJobs) = 2
    /\ queue # <<>>

\* C2: no two live processes were launched with the same CUDA_VISIBLE_DEVICES;
\* a GPU id taken from the channel is held by one holder (the submit call or
\* one supervisor) until it is sent back; a live process is the current job of
\* one supervisor, was launched with that supervisor's GPU, and that GPU is
\* the one in the job's published Running state.
Holds(t) == sup[t].pc \notin {"off", "fetch_sub"}
InChannel(g) == \E i \in DOMAIN gpu_rx : gpu_rx[i] = g
RunDisturbed ==
    \/ should_quit
    \/ ctrlc # "off" /\ ctrlc # "armed"
    \/ \E k \in JobIds : proc[k].status = "stubborn"

\* C3: every submitted job eventually reaches Completed or Failed, provided
\* every launched process ends and the tasks are scheduled fairly.
C3_EveryJobEnds ==
    \A j \in JobIds :
       (j \in DOMAIN jobs) ~>
          ((j \in DOMAIN jobs /\ IsTerminal(jobs[j].state)) \/ RunDisturbed)

\* C4: whenever no submit call is in progress and the queue is not empty, no
\* GPU is free.
C4_NoIdleSlotWhileQueued ==
    (NoSubmitInProgress /\ queue # <<>>) => gpu_rx = <<>>

\* C5: a supervisor whose job could not be started publishes Failed and goes
\* on to the queue-drain step (pop_front), for its first job and for a job of
\* the drain loop alike.
C5_SpawnFailureDrains ==
    [][\A t \in JobIds :
          (sup[t].pc = "spawn_failed" /\ sup'[t].pc # "spawn_failed") =>
             /\ jobs'[sup[t].job].state = Failed
             /\ sup'[t].pc = "pop_front"]_vars

\* C6: once kill_all_jobs has sent SIGTERM and waits, every process it
\* signalled ends: those that ignore SIGTERM through the SIGKILL of the
\* second phase.
C6_SweepEndsAll ==
    (ctrlc = "sleep") ~> (\A j \in signalled.term : ~Alive(proc[j]))

\* C7: after Ctrl+C, kill_all_jobs returns and the program ends.
C7_CancelEndsProgram ==
    (ctrlc # "off" /\ ctrlc # "armed") ~> (exited # "no")

\* C8 as stated: is_idle() is true exactly when the queue is empty and no job
\* is published as Running.
C8_IsIdleExact == is_idle <=> (queue = <<>> /\ RunningJobs = {})

\* A GPU is counted in busy while no job is published as Running on it: in
\* spawn_job after the increment, and in a supervisor from the terminal state
\* of one job to Running of the next or to the decrement.
BusyWithoutRunning ==
    \/ main.pc = "set_running"
    \/ \E t \in JobIds :
          sup[t].pc \in {"untrack", "pop_front", "set_running", "release", "fetch_sub"}

\* C8 amended: is_idle() is true exactly when the queue is empty, no job is
\* published as Running and no GPU is counted busy without a Running job; so
\* it is true only when the queue is empty and no job is Running.
C8_IsIdleAmended ==
    /\ is_idle <=> (queue = <<>> /\ RunningJobs = {} /\ ~BusyWithoutRunning)
    /\ is_idle => (queue = <<>> /\ RunningJobs = {})

\* is_idle() is true again after three jobs have ended, one of them Failed.
C8_Witness ==
    /\ is_idle
    /\ Len(jobs) = MaxJobs
    /\ \A i \in DOMAIN jobs : IsTerminal(jobs[i].state)
    /\ \E i \in DOMAIN jobs : jobs[i].state = Failed

\* C9: from the moment submit has published the job as Queued until the job
\* has its GPU or is on the queue, is_idle() is false.
C9_SubmitFlipsIdle ==
    main.pc \in {"try_recv", "fetch_add", "push_back"} => ~is_idle

\* C10: without an operator abort the run ends only when every job is
\* Completed or Failed: the headless wait loop leaves when is_idle() is true
\* and then every job is terminal; the dashboard's auto-exit requires it.
C10_RunEndsWhenAllDone ==
    exited = "idle" =>
       /\ \A i \in DOMAIN jobs : IsTerminal(jobs[i].state)
       /\ main.pc = "wait" => is_idle
       /\ main.pc = "select" => AllJobsDone

\* The headless run of three jobs ends with one job Failed and one Completed.
C10_Witness ==
    /\ exited = "idle"
    /\ main.pc = "wait"
    /\ Len(jobs) = MaxJobs
    /\ \E i, k \in DOMAIN jobs : jobs[i].state = Failed /\ jobs[k].state = Completed

\* C11: the published state of a job only moves Queued -> Running -> Completed
\* or Failed: a new record is Queued, a Queued job only becomes Running, a
\* Running job only becomes Completed or Failed, a terminal state is final,
\* and a job is launched only once.
C11_StateMachine ==
    [][/\ \A i \in DOMAIN jobs' :
             IF i \in DOMAIN jobs
             THEN jobs'[i].state # jobs[i].state =>
                     \/ jobs[i].state = Queued /\ IsRunning(jobs'[i].state)
                     \/ IsRunning(jobs[i].state) /\ IsTerminal(jobs'[i].state)
             ELSE jobs'[i].state = Queued
       /\ \A j \in JobIds :
             proc'[j].status \in {"run", "stubborn"} =>
                proc[j].status \in {"none", "run", "stubborn"}
                /\ (proc[j].status = "none" => IsRunning(jobs[j].state))]_vars

\* A job taken from the queue has Completed after its process ended, and
\* another job went from Running to Failed without a process (spawn error).
C11_Witness ==
    /\ \E t \in JobIds : sup[t].in_loop /\ sup[t].pc = "untrack"
                         /\ jobs[sup[t].job].state = Completed
    /\ \E i \in DOMAIN jobs : jobs[i].state = Failed /\ proc[i].status = "none"

\* How many times job j is on the queue
InQueueTimes(j) == Cardinality({i \in DOMAIN queue : queue[i] = j})

\* The supervisors whose current job j has been published as Running and has
\* not yet been published as Completed or Failed
BoundTo(j) ==
    {t \in JobIds : sup[t].job = j /\ sup[t].pc \in {"spawn", "spawn_failed", "track", "wait"}}

\* C12 as stated: in every state a job is Queued exactly when it is on the
\* queue, Running exactly when it is bound to one GPU, and otherwise terminal.
C12_ExactlyOne ==
    \A j \in DOMAIN jobs :
       /\ jobs[j].state = Queued <=> InQueueTimes(j) = 1
       /\ IsRunning(jobs[j].state) <=> Cardinality(BoundTo(j)) = 1
       /\ IsTerminal(jobs[j].state) <=> (InQueueTimes(j) = 0 /\ BoundTo(j) = {})

\* The places a job published as Queued can be in: on the queue, in the hands
\* of the submit call that published it (before push_back or until spawn_job
\* publishes Running), or in the hands of the supervisor that popped it
\* (until it publishes Running)
QueuedPlaces(j) ==
    InQueueTimes(j)
    + (IF main.job = j /\ main.pc \in {"try_recv", "push_back", "fetch_add", "set_running"}
       THEN 1 ELSE 0)
    + Cardinality({t \in JobIds : sup[t].job = j /\ sup[t].pc = "set_running"})

\* Where each job is, by its published state
EachJobInOnePlace ==
    /\ \A i \in DOMAIN queue : queue[i] \in DOMAIN jobs
    /\ \A j \in DOMAIN jobs :
          /\ jobs[j].state = Queued => (QueuedPlaces(j) = 1 /\ BoundTo(j) = {})
          /\ IsRunning(jobs[j].state) =>
                /\ QueuedPlaces(j) = 0
                /\ Cardinality(BoundTo(j)) = 1
                /\ \A t \in BoundTo(j) : jobs[j].state = Running(sup[t].gpu)
          /\ IsTerminal(jobs[j].state) => (QueuedPlaces(j) = 0 /\ BoundTo(j) = {})

\* C12 amended: a job published as Queued is in exactly one of the three
\* places above and bound to no GPU; a Running job is in none of them and is
\* the current job of exactly one supervisor, whose GPU is the published one;
\* a terminal job is in none of them and bound to no GPU.
C12_OnePlace == []EachJobInOnePlace

\* One job is terminal, one is Running after it was taken from the queue, and
\* one is Queued on the queue.
C12_Witness ==
    \E a, b, c \in DOMAIN jobs :
       /\ IsTerminal(jobs[a].state)
       /\ IsRunning(jobs[b].state) /\ \E t \in BoundTo(b) : sup[t].in_loop
       /\ jobs[c].state = Queued /\ InQueueTimes(c) = 1

\* The jobs published as Running on GPU g
RunningOn(g) == {j \in DOMAIN jobs : jobs[j].state = Running(g)}

InTransfer(g) ==
    \/ main.pc \in {"fetch_add", "set_running"} /\ main.gpu = g
    \/ \E t \in JobIds :
          sup[t].gpu = g /\ sup[t].pc \in {"untrack", "pop_front", "set_running", "release"}

\* Where each GPU is, and the count of Running jobs
EachGpuFreeBoundOrInTransfer ==
    /\ \A i \in DOMAIN gpus :
          LET g == gpus[i] IN
          /\ Cardinality(RunningOn(g)) <= 1
          /\ (IF InChannel(g) THEN 1 ELSE 0) + Cardinality(RunningOn(g))
                + (IF InTransfer(g) THEN 1 ELSE 0) = 1
    /\ Cardinality(RunningJobs)
          = Len(gpus) - Len(gpu_rx)
            - Cardinality({i \in DOMAIN gpus : InTransfer(gpus[i])})

GpuIds == {gpus[i] : i \in DOMAIN gpus}

\* spawn_job, called by submit, has the GPU id it will move into the
\* supervisor task
MainHolds(g) == main.pc \in {"fetch_add", "set_running"} /\ main.gpu = g

\* The number of copies of GPU id g: in the free channel, in spawn_job, and in
\* the supervisor tasks that have not yet sent theirs back
Tokens(g) ==
    Cardinality({i \in DOMAIN gpu_rx : gpu_rx[i] = g})
    + (IF MainHolds(g) THEN 1 ELSE 0)
    + Cardinality({t \in JobIds : Holds(t) /\ sup[t].gpu = g})

\* Every GPU id of the initial list has exactly one holder
GpuIdsConserved ==
    /\ \A g \in GpuIds : Tokens(g) = 1
    /\ \A i \in DOMAIN gpu_rx : gpu_rx[i] \in GpuIds
    /\ \A t \in JobIds : Holds(t) => sup[t].gpu \in GpuIds
    /\ main.pc \in {"fetch_add", "set_running"} => main.gpu \in GpuIds
    /\ Len(gpu_rx) + Cardinality({t \in JobIds : Holds(t)})
          + (IF main.pc \in {"fetch_add", "set_running"} THEN 1 ELSE 0) = Len(gpus)

\* C14: GPU ids are conserved: the ids in the free channel together with the
\* ids held by spawn_job and by the supervisor tasks are exactly the initial
\* list, each once; no id is sent back twice, and a supervisor that is about
\* to end (its send is done) has given its id back exactly once.
C14_SlotsConserved == []GpuIdsConserved

\* A supervisor has sent its GPU back and has not ended yet, and another
\* holder has already taken that GPU from the channel.
C14_Witness ==
    \E t \in JobIds :
       /\ sup[t].pc = "fetch_sub"
       /\ \/ MainHolds(sup[t].gpu)
          \/ \E u \in JobIds : Holds(u) /\ sup[u].gpu = sup[t].gpu

\* C15: jobs start in submission order: job ids are given in the order of the
\* submit calls, which main makes one after the other, so while a job is
\* still published as Queued no job submitted after it has become Running.
C15_Fifo ==
    \A a, b \in DOMAIN jobs :
       (a < b /\ jobs[a].state = Queued) => jobs[b].state = Queued

\* C16: a job is published as Queued before anything else happens to it: its
\* record is created Queued, a job only becomes Running from Queued, submit
\* takes a GPU from the channel only for a job already published as Queued,
\* and a process is started only for a job already published as Running on
\* the GPU the process is given.
C16_QueuedBeforeRunningBeforeSpawn ==
    [][/\ \A i \in DOMAIN jobs' :
             /\ i \notin DOMAIN jobs => jobs'[i].state = Queued
             /\ (i \in DOMAIN jobs /\ IsRunning(jobs'[i].state)
                   /\ ~IsRunning(jobs[i].state)) => jobs[i].state = Queued
       /\ Len(gpu_rx') < Len(gpu_rx) =>
             (main.job \in DOMAIN jobs /\ jobs[main.job].state = Queued)
       /\ \A t \in JobIds :
             (sup'[t].pc = "set_running" /\ sup[t].pc # "set_running") =>
                (sup'[t].job \in DOMAIN jobs /\ jobs[sup'[t].job].state = Queued)
       /\ \A j \in JobIds :
             (proc[j].status = "none" /\ proc'[j].status # "none") =>
                (j \in DOMAIN jobs /\ jobs[j].state = Running(proc'[j].cuda))]_vars

\* A process launched by submit's spawn_job and a process of a job taken from
\* the queue are alive, both after their Running state was published.
C16_Witness ==
    \E t, u \in JobIds :
       /\ ~sup[t].in_loop /\ sup[t].pc = "wait" /\ Alive(proc[sup[t].job])
       /\ sup[u].in_loop /\ sup[u].pc = "wait" /\ Alive(proc[sup[u].job])

\* No launch has failed and no process ignores signals: every command starts
\* and exits by itself
AllCommandsExit ==
    /\ \A t \in JobIds : sup[t].pc # "spawn_failed"
    /\ \A j \in JobIds : proc[j].status # "stubborn"
    /\ \A i \in DOMAIN jobs : jobs[i].state = Failed => proc[i].status # "none"

OneSlotInUse ==
    /\ Cardinality(RunningJobs) <= 1
    /\ \A i \in RunningJobs : jobs[i].state = Running(0)
    /\ \A j \in JobIds : proc[j].status # "none" => proc[j].cuda = 0
    /\ (MainHolds(0) \/ \E t \in JobIds : Holds(t)) => gpu_rx = <<>>

PublishedState(j) == IF j \in DOMAIN jobs THEN jobs[j].state ELSE <<"None">>

\* C18: the hand-off of a GPU is ordered: a job becomes Running on a GPU only
\* when no other job is published as Running on that GPU (the previous one is
\* Completed or Failed), and while a job is Running on the only GPU a Queued
\* job stays Queued; with one GPU, when job 2 is submitted while the process
\* of job 1 runs, both jobs end Completed or Failed, job 1 first.
C18_HandOffOrdered ==
    /\ [][\A b \in DOMAIN jobs :
             (jobs[b].state = Queued /\ jobs'[b].state # Queued) =>
                /\ IsRunning(jobs'[b].state)
                /\ \A a \in DOMAIN jobs : jobs[a].state # jobs'[b].state
                /\ Len(gpus) = 1 => RunningJobs = {}]_vars
    /\ [](Len(gpus) = 1 /\ IsTerminal(PublishedState(2))
             /\ proc[1].status # "none" /\ proc[2].status # "none"
          => IsTerminal(PublishedState(1)))
    /\ (Len(gpus) = 1 /\ Alive(proc[1]) /\ PublishedState(2) = Queued)
          ~> ((IsTerminal(PublishedState(1)) /\ IsTerminal(PublishedState(2))) \/ RunDisturbed)

\* C19: kill_all_jobs can be called twice in a row: the first call returns,
\* and when it has returned no process it signalled is alive, so that a
\* second call finds nothing to end and reports nothing.
C19_FirstSweepReturnsDone ==
    (ctrlc = "sleep") ~>
       (ctrlc = "returned" /\ \A j \in signalled.term : ~Alive(proc[j]))

\* C20: the sweep passes over every tracked process in both phases: once the
\* SIGTERM phase is over every tracked process has been sent SIGTERM, whether
\* or not a kill call returned an error, and after the sleep every tracked
\* process is sent SIGKILL.
C20_EveryTrackedSignalled ==
    /\ [](ctrlc \in {"sleep", "blocked", "returned"} => signalled.term = running_jobs)
    /\ (ctrlc = "sleep") ~> (signalled.kill = running_jobs)

\* C21: whenever the process of a job exists (spawned and not yet exited),
\* the job is in running_jobs, so that a sweep that starts in that state
\* signals it.
C21_LiveProcessTracked ==
    \A j \in JobIds : Alive(proc[j]) => j \in running_jobs

\* C22: a step of kill_all_jobs only signals processes: it leaves the free
\* channel, the queue, busy, running_jobs, every published job state and
\* every supervisor as they are, and touches no process outside running_jobs.
C22_SweepOnlySignals ==
    [][(ctrlc \in {"armed", "sleep"} /\ ctrlc' # ctrlc) =>
          /\ UNCHANGED <<gpu_rx, queue, busy, running_jobs, jobs, sup>>
          /\ \A j \in JobIds : j \notin running_jobs => proc'[j] = proc[j]]_vars

\* The SIGTERM phase has ended a process whose job is still published as
\* Running and still tracked, with another job waiting on the queue.
C22_Witness ==
    /\ ctrlc = "sleep"
    /\ queue # <<>>
    /\ \E j \in signalled.term :
          /\ j \in running_jobs
          /\ proc[j].status = "fail"
          /\ IsRunning(jobs[j].state)

\* C23: the AppState RwLock is not held while kill_all_jobs sweeps and waits,
\* and a supervisor whose process has ended is not kept from publishing the
\* exit by a guard that some task holds across a wait.
C23_StateLockOnlyForUpdates ==
    /\ ctrlc \in {"sleep", "blocked"} => state_guard = "none"
    /\ \A t \in JobIds :
          (sup[t].pc = "wait" /\ Exited(proc[sup[t].job])) => state_guard = "none"

\* A submit call is between its first and its last step
SubmitInProgress == main.pc \in {"try_recv", "push_back", "fetch_add", "set_running"}

\* C24: submit never waits for a GPU: in every state of a submit call in
\* progress its next step can be taken, whatever the processes do; when the
\* channel is empty the next step goes to push_back, and push_back puts the
\* job on the queue and returns.
C24_SubmitNeverBlocks ==
    /\ [](SubmitInProgress => ENABLED MainStep)
    /\ [][/\ (main.pc = "try_recv" /\ gpu_rx = <<>> /\ main' # main) =>
                main' = [main EXCEPT !.pc = "push_back"]
          /\ (main.pc = "push_back" /\ main' # main) =>
                (main'.pc = "read" /\ queue' = Append(queue, main.job))]_vars

\* Two submit calls have returned with their jobs on the queue while the only
\* GPU is taken by a process that never exits.
C24_Witness ==
    /\ main.pc = "read"
    /\ Len(queue) = 2
    /\ gpu_rx = <<>>
    /\ \E j \in JobIds : proc[j].status = "stubborn" /\ j \in running_jobs

\* C29 as stated: busy is always between 0 and the number of GPUs.
C29_BusyWithinSlots == busy \in 0..Len(gpus)

\* The supervisor tasks that have sent their GPU back and not yet decremented
Decrementing == {t \in JobIds : sup[t].pc = "fetch_sub"}

\* busy counts the tasks between their increment and their decrement
BusyCountsTasks ==
    /\ busy = Cardinality({t \in JobIds : sup[t].pc # "off"})
                 + (IF main.pc = "set_running" THEN 1 ELSE 0)
    /\ busy >= 0
    /\ busy <= Len(gpus) + Cardinality(Decrementing)

\* C29 amended: busy never underflows and is the number of spawn_job calls
\* and supervisor tasks between their increment and their decrement; it is at
\* most the number of GPUs plus the number of supervisors that have sent
\* their GPU back and not yet decremented.
C29_BusyCountsTasks == []BusyCountsTasks

\* busy is larger than the number of GPUs: a supervisor has sent its GPU back
\* and a submit call has taken it and incremented before the decrement.
C29_Witness ==
    /\ busy > Len(gpus)
    /\ Decrementing # {}

\* The supervisors whose current job j is between the insert and the remove
Tracking(j) == {t \in JobIds : sup[t].job = j /\ sup[t].pc \in {"wait", "untrack"}}

\* Every entry of running_jobs belongs to one supervisor that holds a GPU
TrackedByHolders ==
    /\ Cardinality(running_jobs) <= Len(gpus)
    /\ \A j \in running_jobs :
          /\ j \in DOMAIN jobs
          /\ jobs[j].state # Queued
          /\ proc[j].status # "none"
          /\ Cardinality(Tracking(j)) = 1
          /\ \A t \in Tracking(j) :
                /\ Holds(t)
                /\ sup[t].pc = "wait" => jobs[j].state = Running(sup[t].gpu)
                /\ sup[t].pc = "untrack" => IsTerminal(jobs[j].state)
    /\ \A t \in JobIds :
          (Holds(t) /\ sup[t].pc \notin {"wait", "untrack"}) => sup[t].job \notin running_jobs
    /\ \A t \in JobIds : ~Holds(t) => sup[t].job \notin running_jobs

\* C30: running_jobs holds at most one entry per held GPU, hence at most S,
\* and never a Queued job: an entry is inserted only for a job published as
\* Running whose process has been spawned, and it is removed after the
\* terminal state is published, before the supervisor goes on to the queue.
C30_TrackedSetWellFormed ==
    /\ []TrackedByHolders
    /\ [][\A j \in JobIds :
             /\ (j \in running_jobs' /\ j \notin running_jobs) =>
                   (IsRunning(jobs[j].state) /\ proc[j].status # "none")
             /\ (j \in running_jobs /\ j \notin running_jobs') =>
                   /\ IsTerminal(jobs[j].state)
                   /\ \E t \in JobIds : sup[t].pc = "untrack" /\ sup'[t].pc = "pop_front"
                                        /\ sup[t].job = j]_vars

\* Two GPUs, two entries: one job is Running with its process alive, the
\* other is already published terminal and not yet removed.
C30_Witness ==
    /\ Cardinality(running_jobs) = 2
    /\ \E j, k \in running_jobs :
          /\ IsRunning(jobs[j].state) /\ Alive(proc[j])
          /\ IsTerminal(jobs[k].state)


\* C25: in every state an observer can read the log buffer of a job holds at
\* most 1000 lines, and after n lines have been appended, by the stdout and
\* the stderr reader in any interleaving, it holds exactly the last
\* min(n, 1000) of them in append order.
C25_LogBufferBounded ==
    /\ Len(log_lines) <= LogCap
    /\ log_lines = LastN(appended, IF Len(appended) > LogCap THEN LogCap ELSE Len(appended))

\* More than 1000 lines have been appended, the last of them by the stderr
\* reader after lines of the stdout reader, and the oldest lines are gone.
C25_Witness ==
    /\ Len(appended) > LogCap + 1
    /\ Len(log_lines) = LogCap
    /\ log_lines[LogCap][1] = "[stderr] "
    /\ log_lines[LogCap - 1][1] = "stdout"
    /\ log_lines[1] # appended[1]


\* the entries of buf that the reader of stream s appended, without the tag
FromStream(buf, s) ==
    LET mine == SelectSeq(buf, LAMBDA e : (e[1] = "[stderr] ") <=> (s = "stderr"))
    IN [i \in 1..Len(mine) |-> IF s = "stderr" THEN Tail(mine[i]) ELSE mine[i]]

\* x is y[a..b] for some a and b: consecutive elements of y, in the order of y
IsSegment(x, y) ==
    \/ x = <<>>
    \/ \E a \in 1..(Len(y) - Len(x) + 1) : x = SubSeq(y, a, a + Len(x) - 1)

\* x is y[1..b] for some b
IsPrefix(x, y) == Len(x) <= Len(y) /\ x = SubSeq(y, 1, Len(x))

\* Emission order is kept within each stream
OrderWithinStream ==
    /\ \A s \in Streams :
          /\ IsPrefix(FromStream(appended, s), emitted[s])
          /\ IsSegment(FromStream(log_lines, s), emitted[s])
    /\ emitted["stderr"] = <<>> => IsSegment(log_lines, emitted["stdout"])

\* C26: the lines of each sub-stream are appended in the order the process
\* emitted them, none skipped, stderr lines tagged "[stderr] ": what either
\* reader has appended is a prefix of what the process wrote to that stream,
\* every entry of the buffer is one whole line, the entries of one stream in
\* the buffer are consecutive lines of that stream in emission order, and
\* when the process writes to stdout only, the buffer itself is a run of
\* consecutive stdout lines ("a" immediately followed by "b").
C26_OrderWithinStream == []OrderWithinStream

\* The buffer is full and ends with lines of the two streams in alternation,
\* each stream's lines in the order they were written.
C26_Witness ==
    /\ Len(log_lines) = LogCap
    /\ SubSeq(log_lines, LogCap - 3, LogCap) =
          <<Line("stdout", 1), Entry("stderr", Line("stderr", 1)),
            Line("stdout", 2), Entry("stderr", Line("stderr", 2))>>


\* The input lines of text by position: line l starts at position LineStart
\* and ends before the next "\n" or the end of text
LineStarts(text) == {i \in 1..Len(text) : i = 1 \/ text[i - 1] = "\n"}

LineEnd(text, i) ==
    IF \E k \in i..Len(text) : text[k] = "\n"
    THEN CHOOSE k \in i..Len(text) : text[k] = "\n" /\ \A m \in i..(k - 1) : text[m] # "\n"
    ELSE Len(text) + 1

\* the positions of line i that hold a character other than white space
Inked(text, i) == {k \in i..(LineEnd(text, i) - 1) : ~IsWhitespace(text[k])}

\* the starts of the non-blank lines
NonBlankStarts(text) == {i \in LineStarts(text) : Inked(text, i) # {}}

\* the line starting at i, from its first to its last character that is not
\* white space
Trimmed(text, i) ==
    LET first == CHOOSE k \in Inked(text, i) : \A m \in Inked(text, i) : k <= m
        last == CHOOSE k \in Inked(text, i) : \A m \in Inked(text, i) : m <= k
    IN SubSeq(text, first, last)

\* the non-blank lines of text, trimmed, in file order
ExpectedCmds(text) ==
    LET starts == NonBlankStarts(text)
        nth(n) == CHOOSE i \in starts : Cardinality({k \in starts : k < i}) = n - 1
    IN [n \in 1..Cardinality(starts) |-> Trimmed(text, nth(n))]

\* the lines of text main's loop has taken so far, as a text
TextRead == IF lines_read = 0 THEN <<>>
            ELSE LET starts == LineStarts(file_content)
                     last == CHOOSE i \in starts : Cardinality({k \in starts : k < i}) = lines_read - 1
                 IN SubSeq(file_content, 1, LineEnd(file_content, last) - 1)

\* C27: bulk submission submits exactly one job per non-blank input line, in
\* input order, with the trimmed line as the command, and nothing for a blank
\* line: after every line taken, and so at the end of the file, the published
\* job list lists the non-blank lines taken so far, trimmed, in file order.
C27_OneJobPerNonBlankLine ==
    /\ cmds = ExpectedCmds(TextRead)
    /\ Len(jobs) = Len(cmds)
    /\ \A i \in DOMAIN jobs : jobs[i].id = i
    /\ lines_read = Len(Lines(file_content)) => cmds = ExpectedCmds(file_content)

\* The whole file " a", "", "b" has been read: two jobs, "a" and "b".
C27_Witness ==
    /\ file_content = <<" ", "a", "\n", "\n", "b">>
    /\ lines_read = 3
    /\ main.pc = "read"
    /\ cmds = <<(<<"a">>), (<<"b">>)>>


\* the jobs the messages written by the client stand for, in the order sent
JobsWritten == [i \in 1..Len(client.written) |-> RemoteJob(client.written[i], client.gpus)]

\* the server has nothing left to do for the connection
ServerAtRest == handler.pc = "done" /\ rx = <<>>

\* C28: remote submission is lossless and in order: the jobs forwarded to the
\* scheduler are always the first of the messages the client wrote on the
\* connection, one job per message in the order sent, no acknowledgement is
\* written for a message not forwarded, and once the server has nothing left
\* to do for the connection every message written has been read, forwarded
\* as one job and acknowledged.
C28_RemoteLossless ==
    /\ IsPrefix(sched_jobs \o rx, JobsWritten)
    /\ handler.acks <= Len(sched_jobs \o rx)
    /\ ServerAtRest => /\ stream.c2s = <<>>
                       /\ sched_jobs = JobsWritten
                       /\ handler.acks = Len(client.written)


\* Every message written is in the end passed to the scheduler.
RemoteEveryMessageForwarded ==
    \A n \in 1..MaxStdin : (Len(client.written) >= n) ~> (Len(sched_jobs) >= n)

\* the reader of stream s has a line in hand, or a line to take from its
\* pipe, that it is going to append to the buffer
WillAppend(s) ==
    \/ reader[s].pc = "push"
    \/ reader[s].pc = "next_line" /\ stdio[s] # <<>> /\ IsUtf8(Head(stdio[s]))

\* no step changes the buffer of the observed job once its terminal state is
\* published
LogFrozenAfterExit ==
    [][IsTerminal(jobs[1].state) => log_lines' = log_lines]_vars

\* C31: once the published state of a job is Completed or Failed its log
\* buffer no longer changes: when the supervisor publishes the terminal state
\* the readers have appended every line the process wrote, so neither reader
\* has a line left to append.
C31_LogCompleteAtExit ==
    IsTerminal(jobs[1].state) => \A s \in Streams : ~WillAppend(s)

====
